---- MODULE Spec2Model ----
(***************************************************************************)
(* Log ingestion server (backend/server.js): the POST /logs handler, the   *)
(* JSON file store it reads and rewrites, the 'newLog' broadcast, and the  *)
(* GET /logs handler with its filters and its sort.                        *)
(* Every await of the handler is a separate step, so that concurrent       *)
(* requests interleave exactly where the event loop lets them.             *)
(***************************************************************************)
EXTENDS Integers, Sequences, FiniteSets, TLC

\* ---------------------------------------------------------------- bounds
MaxReq == 2        \* ingest requests of the concurrent specification
MaxSeqReq == 3     \* ingest requests of the sequential specification
MaxClock == 1      \* last value of the server clock (ms since the epoch)
MaxQuery == 2      \* GET /logs requests of the concurrent query specification
MaxLogs == 3       \* records of a stored collection that is queried
MaxCrit == 2       \* parameters one query string carries
MaxSub == 2        \* socket.io clients
MaxBad == 2        \* fields of a candidate that are left out or replaced

\* retention cap: 1000 in the program, scaled down
Cap == 2

\* ------------------------------------------------------------ JS values
\* a value of the JSON request body: its kind (typeof, with null and array
\* told apart) and its text
JsonValue(kind, text) == [kind |-> kind, text |-> text]
Str(s) == JsonValue("string", s)

\* !v of JavaScript for a property that is present
Falsy(v) ==
    \/ v.kind = "null"
    \/ v.kind = "string" /\ v.text = ""
    \/ v.kind = "number" /\ v.text = "0"
    \/ v.kind = "boolean" /\ v.text = "false"

\* typeof v
TypeOf(v) == IF v.kind \in {"object", "array", "null"} THEN "object" ELSE v.kind

\* ------------------------------------------------------------ dates
NaN == -1
TimeRange == 0..9

\* Date.prototype.toISOString for the times of the model
ToISOString(ms) == "1970-01-01T00:00:00.00" \o ToString(ms) \o "Z"

\* the same instant written with a numeric offset, which Date also parses
OffsetForm(ms) == "1970-01-01T00:00:00.00" \o ToString(ms) \o "+00:00"

\* new Date(v).getTime(): a date string or a number of milliseconds gives the
\* time, anything else NaN
ParseDate(v) ==
    IF v.kind = "string" /\ \E ms \in TimeRange : v.text \in {ToISOString(ms), OffsetForm(ms)}
    THEN CHOOSE ms \in TimeRange : v.text \in {ToISOString(ms), OffsetForm(ms)}
    ELSE IF v.kind = "number" /\ \E ms \in TimeRange : v.text = ToString(ms)
    THEN CHOOSE ms \in TimeRange : v.text = ToString(ms)
    ELSE NaN

\* ------------------------------------------------------------ validation
required == <<"level", "message", "resourceId", "timestamp",
              "traceId", "spanId", "commit", "metadata">>

validLevels == <<"error", "warn", "info", "debug">>

Range(s) == {s[i] : i \in DOMAIN s}

\* a field counts as missing only when the candidate does not have it
MissingFields_AbsentOnly(logEntry) ==
    SelectSeq(required, LAMBDA f : f \notin DOMAIN logEntry)

\* required.filter(field => !logEntry[field])
MissingFields(logEntry) ==
    SelectSeq(required,
              LAMBDA f : f \notin DOMAIN logEntry \/ Falsy(logEntry[f]))

\* missing.join(', ')
RECURSIVE Join(_)
Join(names) ==
    IF Len(names) = 0 THEN ""
    ELSE IF Len(names) = 1 THEN names[1]
    ELSE names[1] \o ", " \o Join(Tail(names))

ValidationOk == [valid |-> TRUE, error |-> ""]
ValidationError(e) == [valid |-> FALSE, error |-> e]

\* the level check reduced to a type check
IncludesLevel_AnyString(level) == level.kind = "string"

\* validLevels.includes(level): strict equality with one of the strings
IncludesLevel(level) == level.kind = "string" /\ level.text \in Range(validLevels)

\* the timestamp check moved in front of the level check
validateLogEntry_TimestampFirst(logEntry) ==
    IF Len(MissingFields(logEntry)) > 0
    THEN ValidationError("Missing required fields: " \o Join(MissingFields(logEntry)))
    ELSE IF ParseDate(logEntry.timestamp) = NaN
    THEN ValidationError("Invalid timestamp format. Must be ISO 8601")
    ELSE IF ~IncludesLevel(logEntry.level)
    THEN ValidationError("Invalid level. Must be one of: " \o Join(validLevels))
    ELSE IF TypeOf(logEntry.metadata) # "object" \/ logEntry.metadata.kind = "null"
    THEN ValidationError("Metadata must be a JSON object")
    ELSE ValidationOk

validateLogEntry(logEntry) ==
    IF Len(MissingFields(logEntry)) > 0
    THEN ValidationError("Missing required fields: " \o Join(MissingFields(logEntry)))
    ELSE IF ~IncludesLevel(logEntry.level)
    THEN ValidationError("Invalid level. Must be one of: " \o Join(validLevels))
    ELSE IF ParseDate(logEntry.timestamp) = NaN
    THEN ValidationError("Invalid timestamp format. Must be ISO 8601")
    ELSE IF TypeOf(logEntry.metadata) # "object" \/ logEntry.metadata.kind = "null"
    THEN ValidationError("Metadata must be a JSON object")
    ELSE ValidationOk

\* ------------------------------------------------------------ inputs
\* the record of the end-to-end scenario, with the times of the model
Sample ==
    [level |-> Str("error"), message |-> Str("Database connection failed"),
     resourceId |-> Str("db-server-01"), timestamp |-> Str(ToISOString(2)),
     traceId |-> Str("trace-001"), spanId |-> Str("span-001"),
     commit |-> Str("abc123"), metadata |-> JsonValue("object", "{retryCount:3}")]

With(rec, f, v) == [g \in DOMAIN rec \cup {f} |-> IF g = f THEN v ELSE rec[g]]
Without(rec, f) == [g \in DOMAIN rec \ {f} |-> rec[g]]

\* a valid candidate that carries its own id and ingestedAt, and an older
\* timestamp written with an offset
Forged ==
    With(With(With(With(Sample, "level", Str("info")),
                   "timestamp", Str(OffsetForm(1))),
              "id", Str("1")),
         "ingestedAt", Str(ToISOString(9)))

ValidBodies == {Sample, Forged, With(Sample, "metadata", JsonValue("array", "[1]"))}

InvalidBodies ==
    {Without(Sample, "message"),
     With(Sample, "level", Str("fatal")),
     With(Sample, "timestamp", Str("invalid-date")),
     With(Sample, "metadata", Str("not-an-object"))}

Bodies == ValidBodies \cup InvalidBodies

\* the candidates of the concurrent specification
ConcBodies == {Sample, Forged} \cup InvalidBodies

\* a record left in the file by an earlier run of the server
Old ==
    [g \in DOMAIN Sample \cup {"id", "ingestedAt", "src"} |->
        CASE g = "id" -> Str("0")
          [] g = "ingestedAt" -> Str(ToISOString(0))
          [] g = "timestamp" -> Str(ToISOString(0))
          [] g = "src" -> 0
          [] OTHER -> Sample[g]]

\* what a field of a candidate is replaced by: the falsy values of JSON, a
\* number and a string that is neither a level nor a date
FieldVariants ==
    {Str(""), JsonValue("null", "null"), JsonValue("number", "0"),
     JsonValue("boolean", "false"), JsonValue("number", "7"), Str("invalid-date")}

\* the candidates that differ from rec in at most n of the required fields
\* from the i-th on, each left out or replaced
RECURSIVE CandidatesFrom(_, _, _)
CandidatesFrom(rec, i, n) ==
    IF i > Len(required) \/ n = 0 THEN {rec}
    ELSE CandidatesFrom(rec, i + 1, n)
         \cup {Without(c, required[i]) : c \in CandidatesFrom(rec, i + 1, n - 1)}
         \cup {With(c, required[i], v) :
                 c \in CandidatesFrom(rec, i + 1, n - 1), v \in FieldVariants}

Candidates == CandidatesFrom(Sample, 1, MaxBad)

\* the parameters the handler takes from req.query
queryFields == <<"level", "message", "resourceId", "timestamp_start",
                 "timestamp_end", "traceId", "spanId", "commit">>

\* the stored records of the filtering tests, with the times of the model;
\* the last two share a timestamp
MockLog(id, level, message, resourceId, ms, commit) ==
    [id |-> Str(id), level |-> Str(level), message |-> Str(message),
     resourceId |-> Str(resourceId), timestamp |-> Str(ToISOString(ms)),
     traceId |-> Str("trace-00" \o id), spanId |-> Str("span-00" \o id),
     commit |-> Str(commit), metadata |-> JsonValue("object", "{}"),
     ingestedAt |-> Str(ToISOString(ms)), src |-> 0]

mockLogs ==
    <<MockLog("1", "error", "Database connection failed", "db-server-01", 1, "abc123"),
      MockLog("2", "warn", "High memory usage detected", "app-server-01", 2, "def456"),
      MockLog("4", "error", "API rate limit exceeded", "api-gateway-01", 3, "jkl012"),
      MockLog("5", "debug", "Processing request data", "api-gateway-01", 3, "mno345")>>

\* the collections queried: up to MaxLogs of these records in any order. The
\* query does not look at the retention cap
Snapshots ==
    UNION {{ls \in [1..n -> Range(mockLogs)] :
               \A i, j \in 1..n : i # j => ls[i] # ls[j]} : n \in 0..MaxLogs}

\* the values a query parameter takes: matching, differing in case only,
\* empty, not a date
CriterionValues ==
    [level |-> {Str("error"), Str("ERROR"), Str(""), JsonValue("null", "null")},
     message |-> {Str("DATABASE"), Str("connection"), Str("db-server"),
                  Str("rate exceeded")},
     resourceId |-> {Str("api-gateway-01"), Str("DB-SERVER-01")},
     timestamp_start |-> {Str(ToISOString(2)), Str(ToISOString(3)), Str("invalid-date")},
     timestamp_end |-> {Str(ToISOString(2)), Str(ToISOString(3)), Str("invalid-date")},
     traceId |-> {Str("trace-001"), Str("TRACE-001")},
     spanId |-> {Str("span-004"), Str("SPAN-004")},
     commit |-> {Str("abc123"), Str("ABC123")}]

NoCriteria == [f \in {} |-> Str("")]

\* the query objects that give at most n of the parameters from the i-th on
RECURSIVE CriteriaFrom(_, _)
CriteriaFrom(i, n) ==
    IF i > Len(queryFields) \/ n = 0 THEN {NoCriteria}
    ELSE CriteriaFrom(i + 1, n)
         \cup {With(c, queryFields[i], v) :
                 c \in CriteriaFrom(i + 1, n - 1), v \in CriterionValues[queryFields[i]]}

Criteria == CriteriaFrom(1, MaxCrit)

\* the queries of the concurrent specification
QueryCriteria ==
    {NoCriteria,
     [level |-> Str("error")],
     [message |-> Str("connection"), timestamp_start |-> Str("invalid-date")]}

\* ------------------------------------------------------------ state
VARIABLES
    server,     \* "init" until startServer has listened
    file,       \* logs.json: missing, parsable with its logs, or unparsable
    now,        \* Date.now()
    nreq,       \* POST /logs requests received so far
    pc,         \* where each request's handler is
    body,       \* req.body of each request
    logs,       \* the handler's local logs array
    newLog,     \* the handler's local newLog
    resp,       \* the response sent, status 0 while none
    events,     \* the 'newLog' events emitted, in order
    wrote,      \* the requests whose fs.writeFile has resolved
    qpc,        \* where each GET /logs handler is
    query,      \* req.query of each GET /logs request
    qlogs,      \* the logs its readLogs returned
    qresp,      \* its response, status 0 while none
    subs,       \* the socket.io clients connected
    inbox,      \* the 'newLog' events sent to each client, in order
    filteredLogs,   \* the list the frontend displays
    handled,    \* the events of its socket the frontend has handled
    filters,    \* the values of its filter inputs
    ws          \* its useWebSocket instance: mounted or not, socketRef.current
                \* (0 for null), the sockets it created that are open, and
                \* how many it has created

qvars == <<qpc, query, qlogs, qresp>>
svars == <<subs, inbox>>
fvars == <<filteredLogs, handled, filters, ws>>

vars == <<server, file, now, nreq, pc, body, logs, newLog,
          resp, events, wrote, qpc, query, qlogs, qresp, subs, inbox,
          filteredLogs, handled, filters, ws>>

Subscribers == 1..MaxSub

Queries == 1..MaxQuery

Reqs == 1..MaxSeqReq

Parsable(ls) == [state |-> "ok", logs |-> ls]
Unparsable == [state |-> "corrupt", logs |-> <<>>]
Missing == [state |-> "missing", logs |-> <<>>]

NoLog == [src |-> 0]
NoBody == [none |-> Str("")]
NoResp == [status |-> 0, error |-> "", log |-> NoLog]
NoQuery == [none |-> Str("")]
NoQResp == [status |-> 0, body |-> <<>>, after |-> 0]

\* the filter inputs of the App, all empty
NoFilters == [f \in Range(queryFields) |-> Str("")]

\* what readLogs returns for the file as it is now
StoredLogs == IF file.state = "ok" THEN file.logs ELSE <<>>

InitRequests ==
    /\ now = 0
    /\ nreq = 0
    /\ pc = [r \in Reqs |-> "idle"]
    /\ body = [r \in Reqs |-> NoBody]
    /\ logs = [r \in Reqs |-> <<>>]
    /\ newLog = [r \in Reqs |-> NoLog]
    /\ resp = [r \in Reqs |-> NoResp]
    /\ events = <<>>
    /\ wrote = {}
    /\ qpc = [q \in Queries |-> "idle"]
    /\ query = [q \in Queries |-> NoQuery]
    /\ qlogs = [q \in Queries |-> <<>>]
    /\ qresp = [q \in Queries |-> NoQResp]
    /\ subs = {}
    /\ inbox = [s \in Subscribers |-> <<>>]
    /\ filteredLogs = <<>>
    /\ handled = 0
    /\ filters = NoFilters
    /\ ws = [mounted |-> "no", socketRef |-> 0, open |-> {}, created |-> 0]

Init ==
    /\ server = "init"
    /\ file \in {Missing, Parsable(<<>>), Parsable(<<Old>>)}
    /\ InitRequests

\* ------------------------------------------------------------ startup
\* listen without initializeDatabase
StartServer_NoInit ==
    /\ server = "init"
    /\ server' = "listening"
    /\ UNCHANGED qvars
    /\ UNCHANGED fvars
    /\ UNCHANGED svars
    /\ UNCHANGED <<file, now, nreq, pc, body, logs, newLog, resp,
                   events, wrote>>

\* the fs.writeFile of initializeDatabase rejects, before or after it has
\* created the file: startServer logs the error and the process exits
StartFail ==
    /\ server = "init"
    /\ file.state = "missing"
    /\ file' \in {Missing, Unparsable}
    /\ server' = "exited"
    /\ UNCHANGED qvars
    /\ UNCHANGED fvars
    /\ UNCHANGED svars
    /\ UNCHANGED <<now, nreq, pc, body, logs, newLog, resp,
                   events, wrote>>

\* initializeDatabase, then listen: the file is created when fs.access fails
StartServer ==
    /\ server = "init"
    /\ file' = IF file.state = "missing" THEN Parsable(<<>>) ELSE file
    /\ server' = "listening"
    /\ UNCHANGED qvars
    /\ UNCHANGED fvars
    /\ UNCHANGED svars
    /\ UNCHANGED <<now, nreq, pc, body, logs, newLog, resp,
                   events, wrote>>

\* the clock as the handler reads it: it never runs backwards. Date.now() for
\* the id and new Date() for ingestedAt stand in one object literal and are
\* taken as one reading
ClockRead(t) == t \in now..MaxClock /\ now' = t

\* ------------------------------------------------------------ POST /logs
\* the spread written last: the candidate's own ingestedAt wins
BuildNewLog_SpreadLast(r, logEntry, clock) ==
    [g \in {"id"} \cup DOMAIN logEntry \cup {"timestamp", "ingestedAt", "src"} |->
        CASE g = "timestamp" -> Str(ToISOString(ParseDate(logEntry.timestamp)))
          [] g = "src" -> r
          [] g \in DOMAIN logEntry -> logEntry[g]
          [] g = "ingestedAt" -> Str(ToISOString(clock))
          [] OTHER -> Str(ToString(clock))]

\* { id: Date.now().toString(), ...logEntry, timestamp: ..., ingestedAt: ... }
\* src is the identity of the object, not a property of it
BuildNewLog(r, logEntry, clock) ==
    [g \in {"id"} \cup DOMAIN logEntry \cup {"timestamp", "ingestedAt", "src"} |->
        CASE g = "timestamp" -> Str(ToISOString(ParseDate(logEntry.timestamp)))
          [] g = "ingestedAt" -> Str(ToISOString(clock))
          [] g = "src" -> r
          [] g \in DOMAIN logEntry -> logEntry[g]
          [] OTHER -> Str(ToString(clock))]

\* the splice forgotten
UnshiftAndTruncate_NoSplice(ls, rec) == <<rec>> \o ls

\* push instead of unshift
UnshiftAndTruncate_Push(ls, rec) ==
    LET all == ls \o <<rec>>
    IN  IF Len(all) > Cap THEN SubSeq(all, 1, Cap) ELSE all

\* logs.unshift(newLog); if (logs.length > 1000) logs.splice(1000)
UnshiftAndTruncate(ls, rec) ==
    LET all == <<rec>> \o ls
    IN  IF Len(all) > Cap THEN SubSeq(all, 1, Cap) ELSE all

\* the handler returns: its locals (logs, newLog) are gone
Return(r) ==
    /\ pc' = [pc EXCEPT ![r] = "done"]
    /\ logs' = [logs EXCEPT ![r] = <<>>]
    /\ newLog' = [newLog EXCEPT ![r] = NoLog]

\* the return of the 400 branch forgotten: the handler goes on to readLogs
IngestValidate_NoReturn(r, b) ==
    /\ server = "listening"
    /\ pc[r] = "idle"
    /\ r = nreq + 1
    /\ nreq' = r
    /\ body' = [body EXCEPT ![r] = b]
    /\ pc' = [pc EXCEPT ![r] = "reading"]
    /\ resp' = IF validateLogEntry(b).valid THEN resp
               ELSE [resp EXCEPT ![r] =
                      [status |-> 400, error |-> validateLogEntry(b).error,
                       log |-> NoLog]]
    /\ UNCHANGED qvars
    /\ UNCHANGED fvars
    /\ UNCHANGED svars
    /\ UNCHANGED <<server, file, now, logs, newLog, events, wrote>>

\* the request arrives: validation runs at once; a rejected candidate is
\* answered 400, an accepted one calls readLogs
IngestValidate(r, b) ==
    /\ server = "listening"
    /\ pc[r] = "idle"
    /\ r = nreq + 1
    /\ nreq' = r
    /\ body' = [body EXCEPT ![r] = b]
    /\ IF validateLogEntry(b).valid
       THEN /\ pc' = [pc EXCEPT ![r] = "reading"]
            /\ UNCHANGED <<resp, logs, newLog>>
       ELSE /\ resp' = [resp EXCEPT ![r] =
                         [status |-> 400, error |-> validateLogEntry(b).error,
                          log |-> NoLog]]
            /\ Return(r)
    /\ UNCHANGED qvars
    /\ UNCHANGED fvars
    /\ UNCHANGED svars
    /\ UNCHANGED <<server, file, now, events, wrote>>

\* readLogs that gives [] whatever the file holds
IngestRead_Empty(r) ==
    /\ pc[r] = "reading"
    /\ logs' = [logs EXCEPT ![r] = <<>>]
    /\ pc' = [pc EXCEPT ![r] = "read"]
    /\ UNCHANGED qvars
    /\ UNCHANGED fvars
    /\ UNCHANGED svars
    /\ UNCHANGED <<server, file, now, nreq, body, newLog,
                   resp, events, wrote>>

\* fs.readFile resolves or rejects; readLogs gives [] for a file it cannot
\* read or parse
IngestRead(r) ==
    /\ pc[r] = "reading"
    /\ logs' = [logs EXCEPT ![r] = StoredLogs]
    /\ pc' = [pc EXCEPT ![r] = "read"]
    /\ UNCHANGED qvars
    /\ UNCHANGED fvars
    /\ UNCHANGED svars
    /\ UNCHANGED <<server, file, now, nreq, body, newLog,
                   resp, events, wrote>>

\* fs.readFile rejects although the file is there (EIO, EMFILE)
IngestReadFault(r) ==
    /\ pc[r] = "reading"
    /\ logs' = [logs EXCEPT ![r] = <<>>]
    /\ pc' = [pc EXCEPT ![r] = "read"]
    /\ UNCHANGED qvars
    /\ UNCHANGED fvars
    /\ UNCHANGED svars
    /\ UNCHANGED <<server, file, now, nreq, body, newLog, resp,
                   events, wrote>>

\* the handler resumes after readLogs: newLog, unshift, splice, and the call
\* of writeLogs
IngestPrepare(r, t) ==
    /\ ClockRead(t)
    /\ pc[r] = "read"
    /\ newLog' = [newLog EXCEPT ![r] = BuildNewLog(r, body[r], t)]
    /\ logs' = [logs EXCEPT ![r] =
                  UnshiftAndTruncate(logs[r], BuildNewLog(r, body[r], t))]
    /\ pc' = [pc EXCEPT ![r] = "writing"]
    /\ UNCHANGED qvars
    /\ UNCHANGED fvars
    /\ UNCHANGED svars
    /\ UNCHANGED <<server, file, nreq, body, resp,
                   events, wrote>>

\* writeLogs called without await: the handler goes on as soon as the write
\* has been started
WriteOpen_NotAwaited(r) ==
    /\ pc[r] = "writing"
    /\ file' = Unparsable
    /\ pc' = [pc EXCEPT ![r] = "written"]
    /\ UNCHANGED qvars
    /\ UNCHANGED fvars
    /\ UNCHANGED svars
    /\ UNCHANGED <<server, now, nreq, body, logs, newLog,
                   resp, events, wrote>>

\* fs.writeFile opens the file for writing, which truncates it
WriteOpen(r) ==
    /\ pc[r] = "writing"
    /\ file' = Unparsable
    /\ pc' = [pc EXCEPT ![r] = "truncated"]
    /\ UNCHANGED qvars
    /\ UNCHANGED fvars
    /\ UNCHANGED svars
    /\ UNCHANGED <<server, now, nreq, body, logs, newLog,
                   resp, events, wrote>>

\* the text a completed write leaves: its own when the file was still empty;
\* when another write completed in between, its own or, when the other text
\* was longer, its own followed by the other's tail
WrittenTexts(ls) ==
    IF file.state = "ok" /\ Len(file.logs) > Len(ls)
    THEN {Parsable(ls), Unparsable}
    ELSE {Parsable(ls)}

\* fs.writeFile writes the text and resolves
WriteFinish(r) ==
    /\ pc[r] = "truncated"
    /\ file' \in WrittenTexts(logs[r])
    /\ wrote' = wrote \cup {r}
    /\ pc' = [pc EXCEPT ![r] = "written"]
    /\ UNCHANGED qvars
    /\ UNCHANGED fvars
    /\ UNCHANGED svars
    /\ UNCHANGED <<server, now, nreq, body, logs, newLog,
                   resp, events>>

\* writeLogs logs the error and does not rethrow it
WriteFault_Swallowed(r) ==
    /\ pc[r] \in {"writing", "truncated"}
    /\ pc' = [pc EXCEPT ![r] = "written"]
    /\ UNCHANGED qvars
    /\ UNCHANGED fvars
    /\ UNCHANGED svars
    /\ UNCHANGED <<server, file, now, nreq, body, logs, newLog, resp, events,
                   wrote>>

\* fs.writeFile rejects, before or after the truncation (EACCES, ENOSPC)
WriteFault(r) ==
    /\ pc[r] \in {"writing", "truncated"}
    /\ pc' = [pc EXCEPT ![r] = "failed"]
    /\ UNCHANGED qvars
    /\ UNCHANGED fvars
    /\ UNCHANGED svars
    /\ UNCHANGED <<server, file, now, nreq, body, logs, newLog,
                   resp, events, wrote>>

\* io.emit: the event goes to every client connected now
Deliver(ev) ==
    inbox' = [s \in Subscribers |->
                IF s \in subs THEN Append(inbox[s], ev) ELSE inbox[s]]

\* the emit moved before the await of writeLogs
IngestEmit_BeforeWrite(r) ==
    /\ pc[r] = "writing"
    /\ events' = Append(events, [type |-> "logIngested", log |-> newLog[r],
                                 totalLogs |-> Len(logs[r])])
    /\ resp' = [resp EXCEPT ![r] = [status |-> 201, error |-> "", log |-> newLog[r]]]
    /\ Return(r)
    /\ UNCHANGED qvars
    /\ UNCHANGED fvars
    /\ Deliver([type |-> "logIngested", log |-> newLog[r],
                 totalLogs |-> Len(logs[r])])
    /\ UNCHANGED subs
    /\ UNCHANGED <<server, file, now, nreq, body, wrote>>

\* the handler resumes after writeLogs: io.emit, then the 201 response
IngestEmit(r) ==
    /\ pc[r] = "written"
    /\ events' = Append(events, [type |-> "logIngested", log |-> newLog[r],
                                 totalLogs |-> Len(logs[r])])
    /\ resp' = [resp EXCEPT ![r] = [status |-> 201, error |-> "", log |-> newLog[r]]]
    /\ Return(r)
    /\ UNCHANGED qvars
    /\ UNCHANGED fvars
    /\ Deliver([type |-> "logIngested", log |-> newLog[r],
                 totalLogs |-> Len(logs[r])])
    /\ UNCHANGED subs
    /\ UNCHANGED <<server, file, now, nreq, body, wrote>>

\* io.emit throws: it is called inside the try of the handler, after
\* writeLogs has resolved, so the catch block runs next
IngestEmitThrow(r) ==
    /\ pc[r] = "written"
    /\ pc' = [pc EXCEPT ![r] = "failed"]
    /\ UNCHANGED qvars
    /\ UNCHANGED fvars
    /\ UNCHANGED svars
    /\ UNCHANGED <<server, file, now, nreq, body, logs, newLog,
                   resp, events, wrote>>

\* a connecting client is sent every event emitted so far
SubConnect_Replay(s) ==
    /\ server = "listening"
    /\ s \notin subs
    /\ subs' = subs \cup {s}
    /\ inbox' = [inbox EXCEPT ![s] = events]
    /\ UNCHANGED qvars
    /\ UNCHANGED fvars
    /\ UNCHANGED <<server, file, now, nreq, pc, body, logs, newLog,
                   resp, events, wrote>>

\* a socket.io client connects: the connection handler logs it
SubConnect(s) ==
    /\ server = "listening"
    /\ s \notin subs
    /\ subs' = subs \cup {s}
    /\ UNCHANGED qvars
    /\ UNCHANGED fvars
    /\ UNCHANGED <<server, file, now, nreq, pc, body, logs, newLog,
                   resp, events, wrote, inbox>>

\* a client disconnects
SubDisconnect(s) ==
    /\ s \in subs
    /\ subs' = subs \ {s}
    /\ UNCHANGED qvars
    /\ UNCHANGED fvars
    /\ UNCHANGED <<server, file, now, nreq, pc, body, logs, newLog,
                   resp, events, wrote, inbox>>

\* writeLogs or io.emit threw: the catch block answers 500
IngestFail(r) ==
    /\ pc[r] = "failed"
    /\ resp' = [resp EXCEPT ![r] =
                 [status |-> 500,
                  error |-> "Internal server error during log ingestion or persistence",
                  log |-> NoLog]]
    /\ Return(r)
    /\ UNCHANGED qvars
    /\ UNCHANGED fvars
    /\ UNCHANGED svars
    /\ UNCHANGED <<server, file, now, nreq, body, events, wrote>>

\* ------------------------------------------------------------ GET /logs
\* the characters of the strings the filters look into
Chars(s) ==
    CASE s = "Database connection failed" ->
           <<"D", "a", "t", "a", "b", "a", "s", "e", " ", "c", "o", "n", "n", "e", "c", "t", "i", "o", "n", " ", "f", "a", "i", "l", "e", "d">>
      [] s = "High memory usage detected" ->
           <<"H", "i", "g", "h", " ", "m", "e", "m", "o", "r", "y", " ", "u", "s", "a", "g", "e", " ", "d", "e", "t", "e", "c", "t", "e", "d">>
      [] s = "API rate limit exceeded" ->
           <<"A", "P", "I", " ", "r", "a", "t", "e", " ", "l", "i", "m", "i", "t", " ", "e", "x", "c", "e", "e", "d", "e", "d">>
      [] s = "Processing request data" ->
           <<"P", "r", "o", "c", "e", "s", "s", "i", "n", "g", " ", "r", "e", "q", "u", "e", "s", "t", " ", "d", "a", "t", "a">>
      [] s = "DATABASE" ->
           <<"D", "A", "T", "A", "B", "A", "S", "E">>
      [] s = "connection" ->
           <<"c", "o", "n", "n", "e", "c", "t", "i", "o", "n">>
      [] s = "db-server" ->
           <<"d", "b", "-", "s", "e", "r", "v", "e", "r">>
      [] s = "rate exceeded" ->
           <<"r", "a", "t", "e", " ", "e", "x", "c", "e", "e", "d", "e", "d">>
      [] s = "error" ->
           <<"e", "r", "r", "o", "r">>
      [] s = "warn" ->
           <<"w", "a", "r", "n">>
      [] s = "info" ->
           <<"i", "n", "f", "o">>
      [] s = "debug" ->
           <<"d", "e", "b", "u", "g">>
      [] s = "ERROR" ->
           <<"E", "R", "R", "O", "R">>
      [] s = "db-server-01" ->
           <<"d", "b", "-", "s", "e", "r", "v", "e", "r", "-", "0", "1">>
      [] s = "app-server-01" ->
           <<"a", "p", "p", "-", "s", "e", "r", "v", "e", "r", "-", "0", "1">>
      [] s = "api-gateway-01" ->
           <<"a", "p", "i", "-", "g", "a", "t", "e", "w", "a", "y", "-", "0", "1">>
      [] s = "DB-SERVER-01" ->
           <<"D", "B", "-", "S", "E", "R", "V", "E", "R", "-", "0", "1">>
      [] s = "trace-001" ->
           <<"t", "r", "a", "c", "e", "-", "0", "0", "1">>
      [] s = "trace-002" ->
           <<"t", "r", "a", "c", "e", "-", "0", "0", "2">>
      [] s = "trace-004" ->
           <<"t", "r", "a", "c", "e", "-", "0", "0", "4">>
      [] s = "trace-005" ->
           <<"t", "r", "a", "c", "e", "-", "0", "0", "5">>
      [] s = "TRACE-001" ->
           <<"T", "R", "A", "C", "E", "-", "0", "0", "1">>
      [] s = "span-001" ->
           <<"s", "p", "a", "n", "-", "0", "0", "1">>
      [] s = "span-002" ->
           <<"s", "p", "a", "n", "-", "0", "0", "2">>
      [] s = "span-004" ->
           <<"s", "p", "a", "n", "-", "0", "0", "4">>
      [] s = "span-005" ->
           <<"s", "p", "a", "n", "-", "0", "0", "5">>
      [] s = "SPAN-004" ->
           <<"S", "P", "A", "N", "-", "0", "0", "4">>
      [] s = "abc123" ->
           <<"a", "b", "c", "1", "2", "3">>
      [] s = "def456" ->
           <<"d", "e", "f", "4", "5", "6">>
      [] s = "jkl012" ->
           <<"j", "k", "l", "0", "1", "2">>
      [] s = "mno345" ->
           <<"m", "n", "o", "3", "4", "5">>
      [] s = "ABC123" ->
           <<"A", "B", "C", "1", "2", "3">>

LowerOf ==
    [A |-> "a", B |-> "b", C |-> "c", D |-> "d", E |-> "e", F |-> "f",
     G |-> "g", H |-> "h", I |-> "i", J |-> "j", K |-> "k", L |-> "l",
     M |-> "m", N |-> "n", O |-> "o", P |-> "p", Q |-> "q", R |-> "r",
     S |-> "s", T |-> "t", U |-> "u", V |-> "v", W |-> "w", X |-> "x",
     Y |-> "y", Z |-> "z"]

\* String.prototype.toLowerCase, character by character
ToLowerCase(s) ==
    [i \in DOMAIN Chars(s) |->
        IF Chars(s)[i] \in DOMAIN LowerOf THEN LowerOf[Chars(s)[i]] ELSE Chars(s)[i]]

\* String.prototype.includes
Includes(hay, needle) ==
    \E i \in 0..(Len(hay) - Len(needle)) : SubSeq(hay, i + 1, i + Len(needle)) = needle

\* the parameter is there, whatever its value
Active_Present(criteria, f) == f \in DOMAIN criteria

\* if (level), if (message), ...: the parameter is there and truthy
Active(criteria, f) == f \in DOMAIN criteria /\ ~Falsy(criteria[f])

\* the comparison done without regard to letter case
EqualsFilter_IgnoreCase(ls, criteria, f) ==
    IF Active(criteria, f)
    THEN SelectSeq(ls, LAMBDA log :
                /\ log[f].kind = criteria[f].kind
                /\ ToLowerCase(log[f].text) = ToLowerCase(criteria[f].text))
    ELSE ls

\* filteredLogs.filter(log => log.level === level), and the same for
\* resourceId, traceId, spanId and commit
EqualsFilter(ls, criteria, f) ==
    IF Active(criteria, f)
    THEN SelectSeq(ls, LAMBDA log : log[f] = criteria[f])
    ELSE ls

\* the record's message not lower-cased
MessageFilter_CaseSensitive(ls, criteria) ==
    IF Active(criteria, "message")
    THEN LET messageLower == ToLowerCase(criteria.message.text)
         IN  SelectSeq(ls, LAMBDA log : Includes(Chars(log.message.text), messageLower))
    ELSE ls

\* filteredLogs.filter(log => log.message.toLowerCase().includes(messageLower))
MessageFilter(ls, criteria) ==
    IF Active(criteria, "message")
    THEN LET messageLower == ToLowerCase(criteria.message.text)
         IN  SelectSeq(ls, LAMBDA log :
                    Includes(ToLowerCase(log.message.text), messageLower))
    ELSE ls

\* date >= date and date <= date: false as soon as one side is NaN
DateGeq(a, b) == a # NaN /\ b # NaN /\ a >= b
DateLeq(a, b) == a # NaN /\ b # NaN /\ a <= b

\* the isNaN guard forgotten
StartFilter_NoGuard(ls, criteria) ==
    IF Active(criteria, "timestamp_start")
    THEN LET startDate == ParseDate(criteria.timestamp_start)
         IN  SelectSeq(ls, LAMBDA log : DateGeq(ParseDate(log.timestamp), startDate))
    ELSE ls

\* if (timestamp_start) { ... if (!isNaN(startDate.getTime())) filter >= }
StartFilter(ls, criteria) ==
    IF Active(criteria, "timestamp_start")
    THEN LET startDate == ParseDate(criteria.timestamp_start)
         IN  IF startDate # NaN
             THEN SelectSeq(ls, LAMBDA log : DateGeq(ParseDate(log.timestamp), startDate))
             ELSE ls
    ELSE ls

\* < in the place of <=
EndFilter_Strict(ls, criteria) ==
    IF Active(criteria, "timestamp_end")
    THEN LET endDate == ParseDate(criteria.timestamp_end)
         IN  IF endDate # NaN
             THEN SelectSeq(ls, LAMBDA log :
                        /\ DateLeq(ParseDate(log.timestamp), endDate)
                        /\ ParseDate(log.timestamp) # endDate)
             ELSE ls
    ELSE ls

\* if (timestamp_end) { ... if (!isNaN(endDate.getTime())) filter <= }
EndFilter(ls, criteria) ==
    IF Active(criteria, "timestamp_end")
    THEN LET endDate == ParseDate(criteria.timestamp_end)
         IN  IF endDate # NaN
             THEN SelectSeq(ls, LAMBDA log : DateLeq(ParseDate(log.timestamp), endDate))
             ELSE ls
    ELSE ls

\* the filters of the handler, in its order
ApplyFilters(ls, criteria) ==
    LET byLevel == EqualsFilter(ls, criteria, "level")
        byMessage == MessageFilter(byLevel, criteria)
        byResource == EqualsFilter(byMessage, criteria, "resourceId")
        byStart == StartFilter(byResource, criteria)
        byEnd == EndFilter(byStart, criteria)
        byTrace == EqualsFilter(byEnd, criteria, "traceId")
        bySpan == EqualsFilter(byTrace, criteria, "spanId")
    IN  EqualsFilter(bySpan, criteria, "commit")

\* the operands of the subtraction exchanged
Compare_Ascending(a, b) == ParseDate(a.timestamp) - ParseDate(b.timestamp)

\* (a, b) => new Date(b.timestamp) - new Date(a.timestamp)
Compare(a, b) == ParseDate(b.timestamp) - ParseDate(a.timestamp)

\* a sort that puts a record in front of the ones it compares equal to
RECURSIVE Sort_Unstable(_)
Sort_Unstable(ls) ==
    IF Len(ls) = 0 THEN <<>>
    ELSE LET front == Sort_Unstable(SubSeq(ls, 1, Len(ls) - 1))
             x == ls[Len(ls)]
             k == Cardinality({i \in DOMAIN front : Compare(front[i], x) < 0})
         IN  SubSeq(front, 1, k) \o <<x>> \o SubSeq(front, k + 1, Len(front))

\* Array.prototype.sort with that comparison: stable, each record goes
\* behind the ones that do not compare greater than it
RECURSIVE Sort(_)
Sort(ls) ==
    IF Len(ls) = 0 THEN <<>>
    ELSE LET front == Sort(SubSeq(ls, 1, Len(ls) - 1))
             x == ls[Len(ls)]
             k == Cardinality({i \in DOMAIN front : Compare(front[i], x) <= 0})
         IN  SubSeq(front, 1, k) \o <<x>> \o SubSeq(front, k + 1, Len(front))

\* filteredLogs.reverse() in the place of the sort
QueryResult_Reversed(ls, criteria) ==
    [i \in 1..Len(ApplyFilters(ls, criteria)) |->
        ApplyFilters(ls, criteria)[Len(ApplyFilters(ls, criteria)) + 1 - i]]

\* the sort left out of the handler
QueryResult_Unsorted(ls, criteria) == ApplyFilters(ls, criteria)

\* what res.json sends for the logs read and the parameters given
QueryResult(ls, criteria) == Sort(ApplyFilters(ls, criteria))

\* the applyFilters helper of the filtering tests: the destructured filters,
\* one if per filter, then the sort with the comparison of the handler
Given(given, f) == f \in DOMAIN given /\ ~Falsy(given[f])

applyFilters(mock, given) ==
    LET l1 == IF Given(given, "level")
              THEN SelectSeq(mock, LAMBDA log : log.level = given.level)
              ELSE mock
        l2 == IF Given(given, "message")
              THEN SelectSeq(l1, LAMBDA log :
                       Includes(ToLowerCase(log.message.text),
                                ToLowerCase(given.message.text)))
              ELSE l1
        l3 == IF Given(given, "resourceId")
              THEN SelectSeq(l2, LAMBDA log : log.resourceId = given.resourceId)
              ELSE l2
        l4 == IF Given(given, "timestamp_start")
                 /\ ParseDate(given.timestamp_start) # NaN
              THEN SelectSeq(l3, LAMBDA log :
                       DateGeq(ParseDate(log.timestamp), ParseDate(given.timestamp_start)))
              ELSE l3
        l5 == IF Given(given, "timestamp_end")
                 /\ ParseDate(given.timestamp_end) # NaN
              THEN SelectSeq(l4, LAMBDA log :
                       DateLeq(ParseDate(log.timestamp), ParseDate(given.timestamp_end)))
              ELSE l4
        l6 == IF Given(given, "traceId")
              THEN SelectSeq(l5, LAMBDA log : log.traceId = given.traceId)
              ELSE l5
        l7 == IF Given(given, "spanId")
              THEN SelectSeq(l6, LAMBDA log : log.spanId = given.spanId)
              ELSE l6
        l8 == IF Given(given, "commit")
              THEN SelectSeq(l7, LAMBDA log : log.commit = given.commit)
              ELSE l7
    IN  Sort(l8)

\* the request arrives: req.query is taken apart and readLogs is called.
\* Requests are numbered in the order they arrive
QueryArrive(q, criteria) ==
    /\ server = "listening"
    /\ qpc[q] = "idle"
    /\ \A p \in 1..(q - 1) : qpc[p] # "idle"
    /\ query' = [query EXCEPT ![q] = criteria]
    /\ qpc' = [qpc EXCEPT ![q] = "reading"]
    /\ UNCHANGED fvars
    /\ UNCHANGED <<server, file, now, nreq, pc, body, logs, newLog, resp,
                   events, wrote, qlogs, qresp, subs, inbox>>

\* the sorted result written back to the file
QueryRespond_WritesBack(q) ==
    /\ qpc[q] = "reading"
    /\ qlogs' = [qlogs EXCEPT ![q] = StoredLogs]
    /\ qresp' = [qresp EXCEPT ![q] =
                   [status |-> 200, body |-> QueryResult(StoredLogs, query[q]),
                    after |-> nreq]]
    /\ file' = Parsable(QueryResult(StoredLogs, query[q]))
    /\ qpc' = [qpc EXCEPT ![q] = "done"]
    /\ UNCHANGED fvars
    /\ UNCHANGED <<server, now, nreq, pc, body, logs, newLog, resp,
                   events, wrote, query, subs, inbox>>

\* readLogs resolves with the parsed file; the handler filters a copy, sorts
\* it and sends it. qlogs keeps what was read, and after the number of
\* POST /logs requests received by then; neither is part of the response. On
\* records and parameters whose fields are strings no filter throws, so the
\* catch is not entered
QueryRespond(q) ==
    /\ qpc[q] = "reading"
    /\ qlogs' = [qlogs EXCEPT ![q] = StoredLogs]
    /\ qresp' = [qresp EXCEPT ![q] =
                   [status |-> 200, body |-> QueryResult(StoredLogs, query[q]),
                    after |-> nreq]]
    /\ qpc' = [qpc EXCEPT ![q] = "done"]
    /\ UNCHANGED fvars
    /\ UNCHANGED <<server, file, now, nreq, pc, body, logs, newLog, resp,
                   events, wrote, query, subs, inbox>>

\* fs.readFile rejects although the file is there: readLogs gives []
QueryReadFault(q) ==
    /\ qpc[q] = "reading"
    /\ qlogs' = [qlogs EXCEPT ![q] = <<>>]
    /\ qresp' = [qresp EXCEPT ![q] =
                   [status |-> 200, body |-> QueryResult(<<>>, query[q]),
                    after |-> nreq]]
    /\ qpc' = [qpc EXCEPT ![q] = "done"]
    /\ UNCHANGED fvars
    /\ UNCHANGED <<server, file, now, nreq, pc, body, logs, newLog, resp,
                   events, wrote, query, subs, inbox>>


\* ------------------------------------------------------------ frontend
\* the socket of the App among the socket.io clients
AppSocket == 1

\* fetchLogs resumes with the response of its GET /logs: setLogs(data),
\* setFilteredLogs(data)
FetchApply(q) ==
    /\ qpc[q] = "done"
    /\ qpc' = [qpc EXCEPT ![q] = "applied"]
    /\ filteredLogs' = qresp[q].body
    /\ UNCHANGED svars
    /\ UNCHANGED <<server, file, now, nreq, pc, body, logs, newLog, resp,
                   events, wrote, query, qlogs, qresp, handled, filters, ws>>

\* handleNewLog for the next event of the socket: the record is put in front
\* of the list
HandleNewLog ==
    /\ handled < Len(inbox[AppSocket])
    /\ handled' = handled + 1
    /\ filteredLogs' =
          IF inbox[AppSocket][handled + 1].type = "logIngested"
          THEN <<inbox[AppSocket][handled + 1].log>> \o filteredLogs
          ELSE filteredLogs
    /\ UNCHANGED qvars
    /\ UNCHANGED svars
    /\ UNCHANGED <<server, file, now, nreq, pc, body, logs, newLog, resp,
                   events, wrote, filters, ws>>

\* handleFilterChange: setFilters with one input replaced
handleFilterChange(key, value) ==
    /\ filters' = [filters EXCEPT ![key] = value]
    /\ UNCHANGED qvars
    /\ UNCHANGED svars
    /\ UNCHANGED <<server, file, now, nreq, pc, body, logs, newLog, resp,
                   events, wrote, filteredLogs, handled, ws>>

\* filterParams of applyFilters: the inputs that hold a truthy value
FilterParams(values) ==
    [f \in {g \in DOMAIN values : ~Falsy(values[g])} |-> values[f]]

\* the fetches the App has issued so far
Issued == {q \in Queries : qpc[q] # "idle"}

\* the timeout of the debounce effect is pending: the inputs have changed
\* since the last fetch was issued, or none was issued yet
TimeoutPending ==
    \/ Issued = {}
    \/ \E q \in Issued :
          /\ \A p \in Issued : p <= q
          /\ query[q] # FilterParams(filters)

\* the timeout fires: applyFilters calls fetchLogs(filterParams), whose GET
\* /logs reaches the server
DebounceFire(q) ==
    /\ TimeoutPending
    /\ QueryArrive(q, FilterParams(filters))

\* clearFilters: every input is emptied and fetchLogs() is called at once
clearFilters(q) ==
    /\ server = "listening"
    /\ qpc[q] = "idle"
    /\ \A p \in 1..(q - 1) : qpc[p] # "idle"
    /\ filters' = NoFilters
    /\ query' = [query EXCEPT ![q] = NoCriteria]
    /\ qpc' = [qpc EXCEPT ![q] = "reading"]
    /\ UNCHANGED svars
    /\ UNCHANGED <<server, file, now, nreq, pc, body, logs, newLog, resp,
                   events, wrote, qlogs, qresp, filteredLogs, handled, ws>>

\* ------------------------------------------------------------ useWebSocket
\* connect without the test of socketRef.current
connect_Unguarded(h) ==
    [h EXCEPT !.socketRef = h.created + 1,
              !.open = h.open \cup {h.created + 1},
              !.created = h.created + 1]

\* connect: if (!socketRef.current) socketRef.current = io(...), with the
\* listeners
connect(h) ==
    IF h.socketRef = 0
    THEN [h EXCEPT !.socketRef = h.created + 1,
                   !.open = h.open \cup {h.created + 1},
                   !.created = h.created + 1]
    ELSE h

\* disconnect: if (socketRef.current) { socketRef.current.disconnect();
\* socketRef.current = null }
disconnect(h) ==
    IF h.socketRef # 0
    THEN [h EXCEPT !.socketRef = 0, !.open = h.open \ {h.socketRef}]
    ELSE h

\* the hook changes ws and nothing else; io() is called at most MaxSub times
HookStep(h) ==
    /\ h.created <= MaxSub
    /\ ws' = h
    /\ UNCHANGED qvars
    /\ UNCHANGED svars
    /\ UNCHANGED <<server, file, now, nreq, pc, body, logs, newLog, resp,
                   events, wrote, filteredLogs, handled, filters>>

\* the component mounts: the effect runs connect()
Mount ==
    /\ ws.mounted = "no"
    /\ HookStep([connect(ws) EXCEPT !.mounted = "yes"])

\* a render with another onNewLog: connect is a new function, the cleanup of
\* the effect runs disconnect() and the effect runs the new connect()
HandlerChange ==
    /\ ws.mounted = "yes"
    /\ HookStep(connect(disconnect(ws)))

\* the component calls the connect or the disconnect the hook returned
CallConnect ==
    /\ ws.mounted = "yes"
    /\ HookStep(connect(ws))

CallDisconnect ==
    /\ ws.mounted = "yes"
    /\ HookStep(disconnect(ws))

\* the component unmounts: the cleanup of the effect runs disconnect()
Unmount ==
    /\ ws.mounted = "yes"
    /\ HookStep([disconnect(ws) EXCEPT !.mounted = "gone"])

\* the transport of an open socket reaches the server
SocketConnect(k) ==
    /\ k \in ws.open
    /\ SubConnect(k)

\* ------------------------------------------------------------ specifications
InFlight(r) == pc[r] \notin {"idle", "done"}
NoneInFlight == \A r \in Reqs : ~InFlight(r)

\* the steps of the handlers when every file operation succeeds
Reliable ==
    \/ StartServer
    \/ \E r \in 1..MaxReq, b \in ConcBodies : IngestValidate(r, b)
    \/ \E r \in Reqs : IngestRead(r)
    \/ \E r \in Reqs, t \in 0..MaxClock : IngestPrepare(r, t)
    \/ \E r \in Reqs : WriteOpen(r)
    \/ \E r \in Reqs : WriteFinish(r)
    \/ \E r \in Reqs : IngestEmit(r)

\* requests arrive at any time and run concurrently; file operations may fail
Next ==
    \/ Reliable
    \/ \E r \in Reqs : IngestReadFault(r)
    \/ \E r \in Reqs : WriteFault(r)
    \/ \E r \in Reqs : IngestFail(r)
    \/ StartFail

Spec == Init /\ [][Next]_vars

\* concurrent requests, no file operation fails
SpecReliable == Init /\ [][Reliable]_vars

\* one client that waits for each response before it sends the next request,
\* on an empty store, no file operation fails
InitSeq ==
    /\ server = "init"
    /\ file \in {Missing, Parsable(<<>>)}
    /\ InitRequests

NextSeq ==
    \/ StartServer
    \/ \E r \in 1..MaxSeqReq, b \in Bodies : NoneInFlight /\ IngestValidate(r, b)
    \/ \E r \in Reqs : IngestRead(r)
    \/ \E r \in Reqs, t \in 0..MaxClock : IngestPrepare(r, t)
    \/ \E r \in Reqs : WriteOpen(r)
    \/ \E r \in Reqs : WriteFinish(r)
    \/ \E r \in Reqs : IngestEmit(r)

SpecSeq == InitSeq /\ [][NextSeq]_vars

\* the filters and the sort as a function: one query of a collection that
\* does not change
InitFilter ==
    /\ server = "listening"
    /\ file \in {Parsable(ls) : ls \in Snapshots}
    /\ InitRequests

NextFilter ==
    \/ \E c \in Criteria : QueryArrive(1, c)
    \/ QueryRespond(1)

SpecFilter == InitFilter /\ [][NextFilter]_vars

\* queries that arrive at any time and run concurrently; a read may fail
InitQuery ==
    /\ server = "init"
    /\ file \in {Missing} \cup {Parsable(ls) : ls \in Snapshots}
    /\ InitRequests

NextQuery ==
    \/ StartServer
    \/ \E q \in Queries, c \in QueryCriteria : QueryArrive(q, c)
    \/ \E q \in Queries : QueryRespond(q)
    \/ \E q \in Queries : QueryReadFault(q)

SpecQuery == InitQuery /\ [][NextQuery]_vars

\* queries and ingests that arrive at any time and run concurrently; no file
\* operation fails
NextServe ==
    \/ Reliable
    \/ \E q \in Queries : QueryArrive(q, NoCriteria)
    \/ \E q \in Queries : QueryRespond(q)

SpecServe == Init /\ [][NextServe]_vars

\* one client that waits for each response before it sends the next request,
\* POST /logs or GET /logs without parameters; no file operation fails
Quiet == NoneInFlight /\ \A q \in Queries : qpc[q] # "reading"

NextClient ==
    \/ StartServer
    \/ \E r \in 1..MaxReq, b \in ConcBodies : Quiet /\ IngestValidate(r, b)
    \/ \E r \in Reqs : IngestRead(r)
    \/ \E r \in Reqs, t \in 0..MaxClock : IngestPrepare(r, t)
    \/ \E r \in Reqs : WriteOpen(r)
    \/ \E r \in Reqs : WriteFinish(r)
    \/ \E r \in Reqs : IngestEmit(r)
    \/ \E q \in Queries : Quiet /\ QueryArrive(q, NoCriteria)
    \/ \E q \in Queries : QueryRespond(q)

SpecClient == Init /\ [][NextClient]_vars

\* one client that waits for each response, socket.io clients that connect
\* and disconnect at any time, and an io.emit that may throw
BroadcastBodies == {Sample, With(Sample, "level", Str("fatal"))}

NextBroadcast ==
    \/ StartServer
    \/ \E r \in 1..MaxReq, b \in BroadcastBodies : NoneInFlight /\ IngestValidate(r, b)
    \/ \E r \in Reqs : IngestRead(r)
    \/ \E r \in Reqs : IngestPrepare(r, now)
    \/ \E r \in Reqs : WriteOpen(r)
    \/ \E r \in Reqs : WriteFinish(r)
    \/ \E r \in Reqs : IngestEmit(r)
    \/ \E r \in Reqs : IngestEmitThrow(r)
    \/ \E r \in Reqs : IngestFail(r)
    \/ \E s \in Subscribers : SubConnect(s)
    \/ \E s \in Subscribers : SubDisconnect(s)

SpecBroadcast == Init /\ [][NextBroadcast]_vars

\* validateLogEntry as a function: one request with any candidate
NextValidate ==
    \/ StartServer
    \/ \E b \in Candidates : IngestValidate(1, b)

SpecValidate == Init /\ [][NextValidate]_vars

\* the App: it connects its socket, fetches without parameters and handles
\* the events pushed to it, while one client ingests records one at a time
NextFrontend ==
    \/ StartServer
    \/ \E r \in 1..MaxReq, b \in {Sample, Forged} : NoneInFlight /\ IngestValidate(r, b)
    \/ \E r \in Reqs : IngestRead(r)
    \/ \E r \in Reqs : IngestPrepare(r, now)
    \/ \E r \in Reqs : WriteOpen(r)
    \/ \E r \in Reqs : WriteFinish(r)
    \/ \E r \in Reqs : IngestEmit(r)
    \/ SubConnect(AppSocket)
    \/ \E q \in Queries : QueryArrive(q, NoCriteria)
    \/ \E q \in Queries : QueryRespond(q)
    \/ \E q \in Queries : FetchApply(q)
    \/ HandleNewLog

SpecFrontend == Init /\ [][NextFrontend]_vars

\* one client that waits for each response before it sends the next request;
\* the fs.readFile of readLogs may reject
NextReadFault ==
    \/ StartServer
    \/ \E r \in 1..MaxSeqReq, b \in {Sample, Forged} : NoneInFlight /\ IngestValidate(r, b)
    \/ \E r \in Reqs : IngestRead(r)
    \/ \E r \in Reqs : IngestReadFault(r)
    \/ \E r \in Reqs : IngestPrepare(r, now)
    \/ \E r \in Reqs : WriteOpen(r)
    \/ \E r \in Reqs : WriteFinish(r)
    \/ \E r \in Reqs : IngestEmit(r)

SpecReadFault == Init /\ [][NextReadFault]_vars

\* the App with its filter inputs in use: the inputs change, the debounced
\* fetch follows them, and records that do or do not match are ingested
FilterInputs == {<<"level", Str("error")>>, <<"level", Str("info")>>, <<"level", Str("")>>}

NextAppFilters ==
    \/ StartServer
    \/ \E r \in 1..MaxReq, b \in {Sample, Forged} : NoneInFlight /\ IngestValidate(r, b)
    \/ \E r \in Reqs : IngestRead(r)
    \/ \E r \in Reqs : IngestPrepare(r, now)
    \/ \E r \in Reqs : WriteOpen(r)
    \/ \E r \in Reqs : WriteFinish(r)
    \/ \E r \in Reqs : IngestEmit(r)
    \/ SubConnect(AppSocket)
    \/ handleFilterChange("level", Str("error"))
    \/ \E q \in Queries : DebounceFire(q)
    \/ \E q \in Queries : clearFilters(q)
    \/ \E q \in Queries : QueryRespond(q)
    \/ \E q \in Queries : FetchApply(q)
    \/ HandleNewLog

SpecAppFilters == Init /\ [][NextAppFilters]_vars

\* the App alone with a store that does not change: the inputs change and
\* the fetches overlap
NextFetches ==
    \/ StartServer
    \/ \E kv \in FilterInputs : handleFilterChange(kv[1], kv[2])
    \/ \E q \in Queries : DebounceFire(q)
    \/ \E q \in Queries : clearFilters(q)
    \/ \E q \in Queries : QueryRespond(q)
    \/ \E q \in Queries : FetchApply(q)

SpecFetches == Init /\ [][NextFetches]_vars

\* one useWebSocket instance and the server its sockets connect to, which
\* sends them the events of the records one client ingests
NextHook ==
    \/ StartServer
    \/ \E r \in 1..MaxReq : NoneInFlight /\ IngestValidate(r, Sample)
    \/ \E r \in Reqs : IngestRead(r)
    \/ \E r \in Reqs : IngestPrepare(r, now)
    \/ \E r \in Reqs : WriteOpen(r)
    \/ \E r \in Reqs : WriteFinish(r)
    \/ \E r \in Reqs : IngestEmit(r)
    \/ Mount
    \/ HandlerChange
    \/ CallConnect
    \/ CallDisconnect
    \/ Unmount
    \/ \E k \in Subscribers : SocketConnect(k)
    \/ \E k \in Subscribers : SubDisconnect(k)

SpecHook == Init /\ [][NextHook]_vars

\* ------------------------------------------------------------ properties
Succeeded(r) == pc[r] = "done" /\ resp[r].status = 201
InStore(r) == \E i \in DOMAIN StoredLogs : StoredLogs[i].src = r
Emitted(r) == \E i \in DOMAIN events : events[i].log.src = r
Accepted(r) == pc[r] # "idle" /\ validateLogEntry(body[r]).valid
Rejected(r) == pc[r] # "idle" /\ ~validateLogEntry(body[r]).valid
Arrives(r) == pc[r] = "idle" /\ pc'[r] # "idle"
Prepares(r) == pc[r] = "read" /\ pc'[r] = "writing"

\* C1: when two requests have both been answered 201 and neither insertion
\* reached the cap, the records of both are in the stored collection.
C1_NoLostUpdate ==
    \A r1, r2 \in Reqs :
        ( /\ r1 # r2
          /\ NoneInFlight
          /\ Succeeded(r1) /\ Succeeded(r2)
          /\ \A i \in DOMAIN events : events[i].totalLogs < Cap )
        => InStore(r1) /\ InStore(r2)

\* C2: at most one request at a time is between the completion of its
\* readLogs and the completion of its writeLogs.
InSection(r) == pc[r] \in {"read", "writing", "truncated"}

C2_SingleWriter == Cardinality({r \in Reqs : InSection(r)}) <= 1

\* C3: validate precedes persist precedes broadcast: every 'newLog' event is
\* for a request whose write has completed, every request that writes or has
\* written carries a candidate validateLogEntry accepts, and every record in
\* the store was written by its own request (or was there at startup).
C3_ValidatePersistBroadcast ==
    /\ \A i \in DOMAIN events : events[i].log.src \in wrote
    /\ \A r \in Reqs :
          (r \in wrote \/ pc[r] \in {"writing", "truncated"}) => Accepted(r)
    /\ \A i \in DOMAIN StoredLogs : StoredLogs[i].src \in wrote \cup {0}

C3_Witness ==
    \E r \in Reqs : Emitted(r) /\ InStore(r) /\ Succeeded(r)

\* C4: a request whose candidate validateLogEntry rejects is answered 400 in
\* the step it arrives in, that step leaves the file and the events as they
\* were, and the request never writes, emits or gets into the store.
C4_RejectedLeavesNoTrace ==
    /\ [][\A r \in Reqs :
            (Arrives(r) /\ ~validateLogEntry(body'[r]).valid)
            => /\ pc'[r] = "done"
               /\ resp'[r].status = 400
               /\ file' = file
               /\ events' = events]_vars
    /\ [](\A r \in Reqs :
            Rejected(r) => /\ resp[r].status = 400
                           /\ r \notin wrote
                           /\ ~Emitted(r)
                           /\ ~InStore(r))

C4_Witness ==
    /\ \E r \in Reqs : Rejected(r) /\ resp[r].status = 400
    /\ \E q \in Reqs : InStore(q)

\* C5: a request whose write failed is answered 500 and nothing else: no
\* 'newLog' event is emitted for it and its record is not in the collection
\* a read returns.
WriteFailed(r) == pc[r] = "failed" \/ (pc[r] = "done" /\ Accepted(r) /\ r \notin wrote)

C5_FailedWriteLeavesNoTrace ==
    \A r \in Reqs :
        /\ WriteFailed(r) => /\ resp[r].status = IF pc[r] = "done" THEN 500 ELSE 0
                             /\ ~Emitted(r)
                             /\ ~InStore(r)
        /\ resp[r].status = 500 => r \notin wrote

C5_Witness ==
    \E r \in Reqs : WriteFailed(r) /\ resp[r].status = 500 /\ file.state = "ok"

\* C6: the stored collection never holds more than Cap records, nor does
\* the sequence a handler is about to write.
C6_AtMostCap ==
    /\ Len(file.logs) <= Cap
    /\ \A r \in Reqs : pc[r] \in {"writing", "truncated", "written"} => Len(logs[r]) <= Cap

\* two insertions that each found the store one short of full or full: the
\* second one evicted the record that was there at startup
C6_Witness ==
    /\ file.state = "ok" /\ Len(file.logs) = Cap
    /\ Len(events) = 2
    /\ \A i \in DOMAIN events : events[i].totalLogs = Cap
    /\ \A r \in 1..2 : InStore(r)
    /\ ~InStore(0)

\* C7: between requests of the sequential client the stored sequence is the
\* min(k, Cap) most recently ingested records, newest-inserted first, k being
\* the number of successful ingests.
Min(a, b) == IF a < b THEN a ELSE b
Ingested == [i \in 1..Len(events) |-> events[Len(events) + 1 - i].log]

ServerId(rec) == rec.src \in Reqs /\ "id" \notin DOMAIN body[rec.src]

C8_UniqueIds ==
    \A i, j \in DOMAIN StoredLogs :
        (i # j /\ ServerId(StoredLogs[i]) /\ ServerId(StoredLogs[j]))
        => StoredLogs[i].id # StoredLogs[j].id

\* C9: the id of the record a handler builds is the one the server generates
\* from its clock, whatever the candidate carries.
C9_ServerAssignedId ==
    [][\A r \in Reqs : Prepares(r) => newLog'[r].id = Str(ToString(now'))]_vars

\* C10: the ingestedAt of the record a handler builds is the server clock at
\* that step, which is not earlier than the clock of any step before it, the
\* arrival of the request included; and every ingestedAt in the store, in an
\* event or in a response is a clock value the server has shown.
ServerRecords ==
    {StoredLogs[i] : i \in DOMAIN StoredLogs}
    \cup {events[i].log : i \in DOMAIN events}
    \cup {resp[r].log : r \in {q \in Reqs : resp[q].status = 201}}

C10_ServerIngestedAt ==
    /\ [][\A r \in Reqs :
            Prepares(r) => /\ newLog'[r].ingestedAt = Str(ToISOString(now'))
                           /\ now' >= now]_vars
    /\ [](\A rec \in ServerRecords : ParseDate(rec.ingestedAt) \in 0..now)

C10_Witness ==
    \E r \in Reqs :
        /\ "ingestedAt" \in DOMAIN body[r]
        /\ Succeeded(r) /\ InStore(r)
        /\ resp[r].log.ingestedAt # body[r].ingestedAt

\* C11: every record of the stored collection, and every record the server
\* has emitted or returned, has one of the four levels.
C11_StoredLevels ==
    \A rec \in ServerRecords :
        rec.level.kind = "string" /\ rec.level.text \in {"error", "warn", "info", "debug"}

C11_Witness ==
    /\ \E r \in Reqs : Succeeded(r) /\ InStore(r)
    /\ \E q \in Reqs : pc[q] = "done" /\ body[q].level = Str("fatal") /\ resp[q].status = 400

\* C12: no stored record has anything but a key/value mapping as metadata:
\* candidates with null, a primitive or an array are rejected.
C12_MetadataIsMapping ==
    \A rec \in ServerRecords : rec.metadata.kind = "object"

\* C13: a successful ingest emits exactly one 'newLog' event, in the step that
\* answers 201; the event carries the record the handler wrote and a totalLogs
\* that is the number of records in the stored collection right after the
\* handler's write; no other step emits.
Writes(r) == pc[r] = "truncated" /\ pc'[r] = "written"
Emits(r) == pc[r] = "written" /\ pc'[r] = "done"

C13_OneEventWithTrueTotal ==
    [][/\ \A r \in Reqs :
            /\ Writes(r) => /\ StoredLogs' = logs[r]
                            /\ Head(StoredLogs') = newLog[r]
            /\ Emits(r) => /\ resp'[r].status = 201
                           /\ events' = Append(events,
                                  [type |-> "logIngested", log |-> newLog[r],
                                   totalLogs |-> Len(logs[r])])
       /\ events' # events => \E r \in Reqs : Emits(r)]_vars

\* ------------------------------------------------------------ query properties
Answered(q) == qpc[q] = "done" /\ qresp[q].status = 200
Only(criteria, f) == [g \in {f} |-> criteria[f]]

\* C14: the records of a query result are exactly the records of the logs read
\* that are in the result of every single parameter of the query taken alone,
\* each of them once; a parameter that is empty or null changes nothing, and a
\* query with no other parameters returns every record.
C14_ConjunctionOfCriteria ==
    \A q \in Queries :
        Answered(q) =>
            /\ Range(qresp[q].body) =
                  {log \in Range(qlogs[q]) :
                      \A f \in DOMAIN query[q] :
                          log \in Range(QueryResult(qlogs[q], Only(query[q], f)))}
            /\ Len(qresp[q].body) = Cardinality(Range(qresp[q].body))
            /\ \A f \in DOMAIN query[q] :
                  Falsy(query[q][f])
                  => qresp[q].body = QueryResult(qlogs[q], Without(query[q], f))
            /\ (\A f \in DOMAIN query[q] : Falsy(query[q][f]))
               => /\ Range(qresp[q].body) = Range(qlogs[q])
                  /\ Len(qresp[q].body) = Len(qlogs[q])

\* two parameters that each keep two of three records and together keep one
C14_Witness ==
    \E q \in Queries :
        /\ Answered(q)
        /\ Len(qlogs[q]) = 3
        /\ Len(qresp[q].body) = 1
        /\ \E f, g \in DOMAIN query[q] :
              /\ f # g
              /\ Len(QueryResult(qlogs[q], Only(query[q], f))) = 2
              /\ Len(QueryResult(qlogs[q], Only(query[q], g))) = 2

\* C15: a query result is in descending order of timestamp: each record's
\* timestamp is at or after the timestamp of the record that follows it.
C15_SortedDescending ==
    \A q \in Queries :
        Answered(q) =>
            \A i \in 1..(Len(qresp[q].body) - 1) :
                ParseDate(qresp[q].body[i].timestamp)
                    >= ParseDate(qresp[q].body[i + 1].timestamp)

\* three records stored oldest first and all three returned
C15_Witness ==
    \E q \in Queries :
        /\ Answered(q)
        /\ Len(qlogs[q]) = 3 /\ Len(qresp[q].body) = 3
        /\ \A i \in 1..2 :
              ParseDate(qlogs[q][i].timestamp) < ParseDate(qlogs[q][i + 1].timestamp)
        /\ qresp[q].body = <<qlogs[q][3], qlogs[q][2], qlogs[q][1]>>

\* C16: a timestamp_start or timestamp_end that is not a date is ignored: the
\* query is answered 200 with the result of the same query without that
\* parameter.
C16_InvalidBoundIgnored ==
    \A q \in Queries :
        qpc[q] = "done" =>
            \A f \in {"timestamp_start", "timestamp_end"} \cap DOMAIN query[q] :
                ParseDate(query[q][f]) = NaN
                => /\ qresp[q].status = 200
                   /\ qresp[q].body = QueryResult(qlogs[q], Without(query[q], f))

\* an invalid start next to a parameter that keeps some records and drops
\* others
C16_Witness ==
    \E q \in Queries :
        /\ Answered(q)
        /\ "timestamp_start" \in DOMAIN query[q]
        /\ query[q].timestamp_start = Str("invalid-date")
        /\ \E f \in DOMAIN query[q] : f # "timestamp_start" /\ Active(query[q], f)
        /\ Len(qresp[q].body) > 0
        /\ Len(qresp[q].body) < Len(qlogs[q])

\* C17: the timestamp bounds are inclusive: of the records the other
\* parameters keep, the result holds exactly those whose timestamp is at or
\* after timestamp_start and at or before timestamp_end, each bound counting
\* only when it is given and a date.
Bound(criteria, f) == IF f \in DOMAIN criteria THEN ParseDate(criteria[f]) ELSE NaN
Unbounded(criteria) == Without(Without(criteria, "timestamp_start"), "timestamp_end")

C17_InclusiveBounds ==
    \A q \in Queries :
        Answered(q) =>
            Range(qresp[q].body) =
                {log \in Range(QueryResult(qlogs[q], Unbounded(query[q]))) :
                    /\ Bound(query[q], "timestamp_start") # NaN
                       => ParseDate(log.timestamp) >= Bound(query[q], "timestamp_start")
                    /\ Bound(query[q], "timestamp_end") # NaN
                       => ParseDate(log.timestamp) <= Bound(query[q], "timestamp_end")}

\* start = end = T on a collection with records at T and records elsewhere:
\* the records at T are returned
C17_Witness ==
    \E q \in Queries :
        /\ Answered(q)
        /\ Bound(query[q], "timestamp_start") # NaN
        /\ Bound(query[q], "timestamp_start") = Bound(query[q], "timestamp_end")
        /\ Len(qresp[q].body) > 0
        /\ Len(qresp[q].body) < Len(qlogs[q])
        /\ \A i \in DOMAIN qlogs[q] :
              ParseDate(qlogs[q][i].timestamp) = Bound(query[q], "timestamp_start")
              => qlogs[q][i] \in Range(qresp[q].body)

\* C18: of the records the other parameters keep, the result holds exactly
\* those whose message contains the message parameter as a run of consecutive
\* characters, upper and lower case of a letter counting as the same
\* character; no other field of the record is looked at.
SameLetter(a, b) ==
    \/ a = b
    \/ a \in DOMAIN LowerOf /\ LowerOf[a] = b
    \/ b \in DOMAIN LowerOf /\ LowerOf[b] = a

OccursIn(needle, hay) ==
    \E i \in 0..(Len(hay) - Len(needle)) :
        \A k \in 1..Len(needle) : SameLetter(hay[i + k], needle[k])

C18_MessageSubstring ==
    \A q \in Queries :
        (Answered(q) /\ Active(query[q], "message")) =>
            Range(qresp[q].body) =
                {log \in Range(QueryResult(qlogs[q], Without(query[q], "message"))) :
                    OccursIn(Chars(query[q].message.text), Chars(log.message.text))}

\* a parameter that is in a message only when case is disregarded, on a
\* collection with messages that do not contain it
C18_Witness ==
    \E q \in Queries :
        /\ Answered(q)
        /\ Active(query[q], "message")
        /\ Len(qresp[q].body) > 0
        /\ Len(qresp[q].body) < Len(qlogs[q])
        /\ \A i \in DOMAIN qresp[q].body :
              ~Includes(Chars(qresp[q].body[i].message.text),
                        Chars(query[q].message.text))

\* C19: for level, resourceId, traceId, spanId and commit, of the records the
\* other parameters keep, the result holds exactly those whose field is the
\* same string as the parameter; a record whose field differs from the
\* parameter in letter case only is not returned.
exactFields == {"level", "resourceId", "traceId", "spanId", "commit"}

CaseVariant(a, b) == a # b /\ ToLowerCase(a) = ToLowerCase(b)

C19_ExactMatch ==
    \A q \in Queries :
        Answered(q) =>
            \A f \in exactFields :
                Active(query[q], f) =>
                    /\ Range(qresp[q].body) =
                          {log \in Range(QueryResult(qlogs[q], Without(query[q], f))) :
                              log[f].kind = "string" /\ log[f].text = query[q][f].text}
                    /\ \A log \in Range(qlogs[q]) :
                          CaseVariant(log[f].text, query[q][f].text)
                          => log \notin Range(qresp[q].body)

\* the parameter is the field of a stored record in upper case, and is the
\* only parameter: nothing is returned
C19_Witness ==
    \E q \in Queries :
        /\ Answered(q)
        /\ \E f \in exactFields :
              /\ DOMAIN query[q] = {f}
              /\ Active(query[q], f)
              /\ \E log \in Range(qlogs[q]) : CaseVariant(log[f].text, query[q][f].text)
        /\ qresp[q].body = <<>>

\* C20: no step of a GET /logs handler changes the file, the collection a
\* read returns, or the events emitted, whatever other queries are in
\* progress.
QuerySteps(q) == qpc'[q] # qpc[q]

C20_QueryLeavesStore ==
    [][(\E q \in Queries : QuerySteps(q))
       => /\ file' = file
          /\ StoredLogs' = StoredLogs
          /\ events' = events]_vars

\* the second query has been answered while the first is still reading, with
\* every stored record in an order that is not the order of the store
C20_Witness ==
    /\ qpc[1] = "reading"
    /\ Answered(2)
    /\ file.state = "ok"
    /\ qlogs[2] = file.logs
    /\ Len(qresp[2].body) = Len(file.logs)
    /\ qresp[2].body # file.logs

\* C21: the logs a query reads are a complete collection: at the step its
\* readLogs resolves the file holds the whole text of a finished write (or
\* the text the server started with), and the query is answered from it.
Reads(q) == qpc[q] = "reading" /\ qpc'[q] = "done"

C21_QueryReadsCompleteStore ==
    [][\A q \in Queries :
          Reads(q) => /\ file.state = "ok"
                      /\ qlogs'[q] = file.logs]_vars

\* C22: for the client that waits for each response: a query without
\* parameters answered after ingest r returned 201, and before any later
\* ingest, holds the record of r's response, with its id and its ingestedAt;
\* and when the query answered just before r held fewer than Cap records, it
\* holds exactly one record more.
Unfiltered(q) == Answered(q) /\ query[q] = NoCriteria

LaterIngests(r) ==
    Cardinality({j \in DOMAIN events :
                    \E i \in DOMAIN events : i < j /\ events[i].log.src = r})

C23_StoredUntilEvicted ==
    NoneInFlight =>
        \A r \in Reqs :
            Succeeded(r) =>
                \/ \E i \in DOMAIN StoredLogs : StoredLogs[i] = resp[r].log
                \/ LaterIngests(r) >= Cap

\* C24: a request whose write has completed is never answered with an error:
\* once its handler has returned, the response is 201 and carries the record,
\* whatever became of the broadcast.
C24_BroadcastFailureKeeps201 ==
    \A r \in Reqs :
        /\ pc[r] = "failed" => r \notin wrote
        /\ (pc[r] = "done" /\ r \in wrote)
           => resp[r].status = 201 /\ resp[r].log.src = r

\* C25: the step that emits a 'newLog' event sends it to the clients
\* connected at that step and to no other, and no other step sends anything:
\* connecting later brings no earlier event.
C25_ConnectedSubscribersOnly ==
    [][/\ \A r \in Reqs :
            Emits(r) =>
                \A s \in Subscribers :
                    inbox'[s] = IF s \in subs
                                THEN Append(inbox[s], events'[Len(events')])
                                ELSE inbox[s]
       /\ (\A r \in Reqs : ~Emits(r)) => inbox' = inbox]_vars

\* two events: one client got the first and had disconnected before the
\* second, another connected after the first and got the second only
C25_Witness ==
    /\ Len(events) = 2
    /\ \E s, t \in Subscribers :
          /\ s \notin subs /\ inbox[s] = <<events[1]>>
          /\ t \in subs /\ inbox[t] = <<events[2]>>

\* C26: a candidate is answered 400 with the missing-fields reason exactly
\* when one of the eight fields is absent or holds a falsy value, and the
\* reason then lists those fields and no other, in the order of the schema.
FalsyValues ==
    {Str(""), JsonValue("null", "null"), JsonValue("number", "0"),
     JsonValue("boolean", "false")}

AbsentOrFalsy(b) ==
    {f \in {"level", "message", "resourceId", "timestamp",
            "traceId", "spanId", "commit", "metadata"} :
        f \notin DOMAIN b \/ b[f] \in FalsyValues}

MissingReason(fields) ==
    "Missing required fields: " \o Join(SelectSeq(required, LAMBDA f : f \in fields))

C26_MissingFieldsReason ==
    \A r \in Reqs :
        pc[r] # "idle" =>
            IF AbsentOrFalsy(body[r]) # {}
            THEN /\ resp[r].status = 400
                 /\ resp[r].error = MissingReason(AbsentOrFalsy(body[r]))
                 /\ validateLogEntry(body[r]) =
                       [valid |-> FALSE, error |-> MissingReason(AbsentOrFalsy(body[r]))]
            ELSE \A fields \in SUBSET Range(required) :
                    fields # {} => resp[r].error # MissingReason(fields)

\* a candidate without traceId and with commit 0
C26_Witness ==
    \E r \in Reqs :
        /\ pc[r] = "done"
        /\ "traceId" \notin DOMAIN body[r]
        /\ "commit" \in DOMAIN body[r] /\ body[r].commit = JsonValue("number", "0")
        /\ resp[r].error = "Missing required fields: traceId, commit"

\* C27: a request has no response while its handler runs and exactly one of
\* 400, 500 and 201 once it has returned: 400 exactly when validateLogEntry
\* rejects the candidate, 201 exactly when its write completed, 500 exactly
\* when the candidate was accepted and the write did not complete; and the
\* record of a request answered 500 is not in the stored collection.
C27_ResponseClass ==
    \A r \in Reqs :
        /\ pc[r] # "done" => resp[r].status = 0
        /\ pc[r] = "done" =>
              /\ resp[r].status \in {400, 500, 201}
              /\ resp[r].status = 400 <=> ~validateLogEntry(body[r]).valid
              /\ resp[r].status = 201 <=> r \in wrote
              /\ resp[r].status = 500 <=> (validateLogEntry(body[r]).valid /\ r \notin wrote)
              /\ resp[r].status = 500 => ~InStore(r)

\* C28: the step that starts the server creates the file with the empty
\* collection when there is none and leaves an existing file as it is; no
\* request is taken before that step, and from then on the file exists.
C28_InitialisedBeforeServing ==
    /\ [][(server = "init" /\ server' = "listening")
          => file' = IF file.state = "missing" THEN Parsable(<<>>) ELSE file]_vars
    /\ [](server = "listening" => file.state # "missing")
    /\ [](server # "listening"
          => /\ nreq = 0 /\ subs = {}
             /\ \A r \in Reqs : pc[r] = "idle"
             /\ \A q \in Queries : qpc[q] = "idle")

\* the first read of a server that holds the empty collection
C28_Witness ==
    /\ server = "listening"
    /\ file = Parsable(<<>>)
    /\ events = <<>>
    /\ \E r \in Reqs : pc[r] = "read" /\ logs[r] = <<>> /\ wrote = {}

\* C29: the list the frontend displays is in descending order of timestamp.
C29_DisplayNewestFirst ==
    \A i \in 1..(Len(filteredLogs) - 1) :
        ParseDate(filteredLogs[i].timestamp) >= ParseDate(filteredLogs[i + 1].timestamp)

\* C30: the step that answers 201 is taken by a handler whose writeLogs has
\* resolved, and no request has a 201 while its write is not started, in
\* progress or failed.
C30_SuccessAfterWrite ==
    /\ [][\A r \in Reqs :
            (resp'[r].status = 201 /\ resp[r].status # 201)
            => pc[r] = "written" /\ r \in wrote]_vars
    /\ [](\A r \in Reqs :
            resp[r].status = 201
            => r \in wrote /\ pc[r] \notin {"reading", "read", "writing", "truncated", "failed"})

\* one request holds its 201 while another one, whose write is in progress
\* or has failed, has no response yet
C30_Witness ==
    \E r, p \in Reqs :
        /\ Succeeded(r) /\ r \in wrote
        /\ pc[p] \in {"truncated", "failed"} /\ resp[p].status = 0

\* C31: a candidate is rejected with the reason of the first check it fails,
\* in the order missing fields, level, timestamp, metadata, whatever later
\* checks it would fail as well; a candidate that fails none is accepted and
\* its handler goes on to read the store.
BadLevel(b) ==
    b.level \notin {Str("error"), Str("warn"), Str("info"), Str("debug")}

BadTimestamp(b) == ParseDate(b.timestamp) = NaN

BadMetadata(b) == b.metadata.kind \notin {"object", "array"}

RejectedWith(r, reason) ==
    /\ pc[r] = "done"
    /\ resp[r] = [status |-> 400, error |-> reason, log |-> NoLog]

C31_FirstFailingCheck ==
    \A r \in Reqs :
        pc[r] # "idle" =>
            IF AbsentOrFalsy(body[r]) # {}
            THEN RejectedWith(r, MissingReason(AbsentOrFalsy(body[r])))
            ELSE IF BadLevel(body[r])
            THEN RejectedWith(r, "Invalid level. Must be one of: error, warn, info, debug")
            ELSE IF BadTimestamp(body[r])
            THEN RejectedWith(r, "Invalid timestamp format. Must be ISO 8601")
            ELSE IF BadMetadata(body[r])
            THEN RejectedWith(r, "Metadata must be a JSON object")
            ELSE pc[r] = "reading" /\ resp[r].status = 0

\* a candidate whose level is a number and whose timestamp is no date is
\* rejected for its level
C31_Witness ==
    \E r \in Reqs :
        /\ pc[r] = "done"
        /\ AbsentOrFalsy(body[r]) = {}
        /\ body[r].level = JsonValue("number", "7")
        /\ body[r].timestamp = Str("invalid-date")
        /\ resp[r].error = "Invalid level. Must be one of: error, warn, info, debug"

\* C32: the sequence a handler writes over the file keeps the records the
\* file held up to then, behind the new record and as far as the cap allows,
\* also when the handler's read of the file failed.
Overwrites(r) == pc[r] = "writing" /\ pc'[r] = "truncated"

C32_ReadFailureKeepsRecords ==
    [][\A r \in Reqs :
         Overwrites(r) =>
             \A i \in DOMAIN StoredLogs :
                 i < Cap => /\ i + 1 \in DOMAIN logs[r]
                            /\ logs[r][i + 1] = StoredLogs[i]]_vars

\* C33: the response of GET /logs is what the applyFilters helper of the
\* tests returns for the logs read and the parameters of the query: the same
\* records in the same order.
C33_HelperEqualsHandler ==
    \A q \in Queries :
        Answered(q) => qresp[q].body = applyFilters(qlogs[q], query[q])

\* a query with two parameters that keeps two of three records and returns
\* them in another order than the file has them
C33_Witness ==
    \E q \in Queries :
        /\ Answered(q)
        /\ Cardinality({f \in DOMAIN query[q] : Given(query[q], f)}) = 2
        /\ Len(qlogs[q]) = 3
        /\ Len(qresp[q].body) = 2
        /\ \E i, j \in DOMAIN qlogs[q] :
              /\ i < j
              /\ qresp[q].body = <<qlogs[q][j], qlogs[q][i]>>

\* C34: two records of a query result that have the same timestamp are in
\* the order in which the logs read had them, and two answered queries with
\* the same parameters over the same logs have the same result.
PositionIn(ls, x) == CHOOSE i \in DOMAIN ls : ls[i] = x

C34_StableSort ==
    /\ \A q \in Queries :
          Answered(q) =>
              \A i, j \in DOMAIN qresp[q].body :
                  (/\ i < j
                   /\ ParseDate(qresp[q].body[i].timestamp)
                         = ParseDate(qresp[q].body[j].timestamp))
                  => PositionIn(qlogs[q], qresp[q].body[i])
                         < PositionIn(qlogs[q], qresp[q].body[j])
    /\ \A p, q \in Queries :
          (Answered(p) /\ Answered(q) /\ query[p] = query[q] /\ qlogs[p] = qlogs[q])
          => qresp[p].body = qresp[q].body

\* two queries without parameters over three records stored oldest first, the
\* second and third with the same timestamp: both results have the oldest
\* record last and the other two in the order of the store
C34_Witness ==
    /\ Answered(1) /\ Answered(2)
    /\ query[1] = query[2]
    /\ Len(qlogs[1]) = 3 /\ qlogs[2] = qlogs[1]
    /\ ParseDate(qlogs[1][1].timestamp) < ParseDate(qlogs[1][2].timestamp)
    /\ ParseDate(qlogs[1][2].timestamp) = ParseDate(qlogs[1][3].timestamp)
    /\ qresp[1].body = <<qlogs[1][2], qlogs[1][3], qlogs[1][1]>>
    /\ qresp[2].body = qresp[1].body

\* C35: a query of its own result with the same parameters returns that
\* result again, and so does a query with one of the parameters alone
\* followed by a query of its result with the remaining parameters, and the
\* other way round, whichever parameter is set apart.
C35_IdempotentAndCommuting ==
    \A q \in Queries :
        Answered(q) =>
            /\ QueryResult(qresp[q].body, query[q]) = qresp[q].body
            /\ \A f \in DOMAIN query[q] :
                  /\ QueryResult(QueryResult(qlogs[q], Only(query[q], f)),
                                 Without(query[q], f)) = qresp[q].body
                  /\ QueryResult(QueryResult(qlogs[q], Without(query[q], f)),
                                 Only(query[q], f)) = qresp[q].body

\* a query with two parameters, each of which alone drops another record of
\* the three stored, that returns the third
C35_Witness ==
    \E q \in Queries :
        /\ Answered(q)
        /\ Len(qlogs[q]) = 3
        /\ Len(qresp[q].body) = 1
        /\ \E f, g \in DOMAIN query[q] :
              /\ f # g
              /\ Len(QueryResult(qlogs[q], Only(query[q], f))) = 2
              /\ Len(QueryResult(qlogs[q], Only(query[q], g))) = 2
              /\ QueryResult(qlogs[q], Only(query[q], f))
                    # QueryResult(qlogs[q], Only(query[q], g))
              /\ qlogs[q][1] \notin Range(qresp[q].body)

\* C36: the displayed list holds no record twice: no two of its positions
\* show the record of the same request under the same id.
C36_NoDuplicateInDisplay ==
    \A i, j \in DOMAIN filteredLogs :
        i # j => \/ filteredLogs[i].id # filteredLogs[j].id
                 \/ filteredLogs[i].src # filteredLogs[j].src

\* C37: when the response of a fetch is applied and no other fetch is in
\* flight, the list displayed is the response of the fetch issued last.
LastIssued == CHOOSE q \in Issued : \A p \in Issued : p <= q

Applies(q) == qpc[q] = "done" /\ qpc'[q] = "applied"

C37_LastIssuedFetchWins ==
    [][\A q \in Queries :
         (Applies(q) /\ \A p \in Issued : qpc'[p] = "applied")
         => filteredLogs' = qresp[LastIssued].body]_vars

\* C38: a pushed record is put into the displayed list only if it passes the
\* filters the inputs hold at that moment.
Pushed == inbox[AppSocket][handled + 1]

Matches(log, values) == QueryResult(<<log>>, FilterParams(values)) = <<log>>

C38_PushRespectsFilters ==
    [][(handled' = handled + 1 /\ ~Matches(Pushed.log, filters))
       => filteredLogs' = filteredLogs]_vars

\* C39: the hook has at most one socket open, and it is the one socketRef
\* holds; a step creates a socket only when socketRef holds none or after it
\* has closed the one held; a step that clears socketRef closes the socket it
\* held; and once the component is unmounted no socket of the hook is open.
C39_AtMostOneSocket ==
    /\ [](/\ Cardinality(ws.open) <= 1
          /\ ws.open = IF ws.socketRef = 0 THEN {} ELSE {ws.socketRef}
          /\ ws.mounted = "gone" => ws.open = {})
    /\ [][/\ ws'.created > ws.created
             => /\ ws'.created = ws.created + 1
                /\ ws'.open = {ws'.created}
          /\ (ws.socketRef # 0 /\ ws'.socketRef # ws.socketRef)
             => ws.socketRef \notin ws'.open]_vars

\* the hook has replaced its first socket by a second one after a change of
\* the handler, the second one has received an event, and the component was
\* then unmounted
C39_Witness ==
    /\ ws.mounted = "gone"
    /\ ws.created = 2
    /\ ws.socketRef = 0
    /\ Len(inbox[2]) > 0
    /\ subs = {}

====
